---- MODULE Spec2Model ----
(***************************************************************************)
(* The EPG aggregation pipeline of oaixnah/tv: the two aggregators         *)
(* (epg/erw-api/main.py get_data, epg/tvmao/main.py get_epg_data), the     *)
(* page scraper's text heuristics (scrape), the pydantic models            *)
(* (epg/models.py) and the serializer (epg/common.py save_epg_file).       *)
(*                                                                         *)
(* A Python str is a sequence of one-character strings, so that replace,   *)
(* the regular expressions and the f-strings are computed, not assumed.    *)
(* A CJK character is one element written in pinyin ("zheng").             *)
(***************************************************************************)
EXTENDS Naturals, Sequences, FiniteSets

VARIABLES prog,        \* which main module runs: "erw" or "tvmao"
          pc,          \* position of the run
          run,         \* "first" or "second" invocation of the program
          date_str,    \* datetime.now().strftime("%Y%m%d")
          upstream,    \* what each channel's source answered (fixed once asked)
          data,        \* the Data object being built (NoData before construction)
          ci,          \* index of the channel the loop is at
          epg,         \* the adapter's result for channel ci
          ji,          \* index of the entry the inner loop is at
          e_xml,       \* content of the file e.xml, a sequence of document nodes
          before,      \* content of e.xml when this invocation started
          pretty_xml,  \* the string save_epg_file materialised
          err          \* the exception that ended the run ("" while none)

vars == <<prog, pc, run, date_str, upstream, data, ci, epg, ji, e_xml, before,
          pretty_xml, err>>

----------------------------------------------------------------------------
(* Bounds of the model *)

\* number of configured channels (70 in each main module)
NumCh == 2
\* longest 'epg_data' list an API answer carries
MaxItems == 2
\* most <li> elements a rendered page carries
MaxLis == 2

----------------------------------------------------------------------------
(* Strings *)

Digits == {"0", "1", "2", "3", "4", "5", "6", "7", "8", "9"}

IsDigit(c) == c \in Digits

\* s.replace(c, "")
Replace(s, c) == SelectSeq(s, LAMBDA x : x # c)

\* the constant tail of the f-strings: '00 +0800'
Suffix0800 == <<"0", "0", " ", "+", "0", "8", "0", "0">>

\* the end-of-day tail: '235959 +0800'
EndOfDay == <<"2", "3", "5", "9", "5", "9", " ", "+", "0", "8", "0", "0">>

\* the run dates the model draws from
DATES == { <<"2", "0", "2", "6", "0", "3", "0", "1">>,
           <<"2", "0", "2", "6", "0", "2", "1", "3">> }

----------------------------------------------------------------------------
(* epg/models.py *)

NoData == [none |-> TRUE]

Channel(id, display_name) == [id |-> id, display_name |-> display_name]

\* four str fields, no validator: any four strings make a Programme
Programme(channel, start, stop, title) ==
    [channel |-> channel, start |-> start, stop |-> stop, title |-> title]

\* Data(**kw): data_from has no default, so pydantic requires it
DataRequired == {"data_from"}

DataValid(kw) == DataRequired \subseteq DOMAIN kw

Data(kw) ==
    [info_name  |-> "by oaixnah",
     info_url   |-> "https://tv.oaix.tech/e.xml",
     data_from  |-> kw.data_from,
     channels   |-> <<>>,
     programmes |-> <<>>]

----------------------------------------------------------------------------
(* epg/erw-api/main.py *)

AllNames == <<"CCTV1", "CCTV2", "CCTV3", "CCTV4", "CCTV5">>

CHANNEL_NAMES == SubSeq(AllNames, 1, NumCh)

T0553 == <<"0", "5", ":", "5", "3">>
T0627 == <<"0", "6", ":", "2", "7">>

\* entries of 'epg_data': a well-formed one, one whose end precedes its start,
\* one without the 'end' field
ErwItems ==
    { [start |-> T0553, end |-> T0627, title |-> "xinwen"],
      [start |-> T0627, end |-> T0553, title |-> "tianqi"],
      [start |-> T0553, title |-> "noend"] }

SeqsUpTo(S, n) == UNION { [1..k -> S] : k \in 0..n }

\* what api.erw.cc can answer for one channel: a transport error or timeout,
\* a body that is not JSON, a JSON object without 'epg_data', a JSON object
\* with a list of entries
ErwResponses ==
    { [kind |-> "exc"], [kind |-> "text"] }
    \cup { [kind |-> "json", body |-> [error |-> "no such channel"]] }
    \cup { [kind |-> "json", body |-> [epg_data |-> l]] :
              l \in SeqsUpTo(ErwItems, MaxItems) }

\* get_epg: requests.get raising a RequestException (transport error, timeout)
\* is caught and gives None; so is req.json() on a body that is not JSON, whose
\* requests.JSONDecodeError is a RequestException (requests 2.27 and later, the
\* releases the module's 'dict | None' syntax, Python 3.10, is installed with)
get_epg(resp) ==
    CASE resp.kind = "exc"  -> [tag |-> "None"]
      [] resp.kind = "text" -> [tag |-> "None"]
      [] resp.kind = "json" -> [tag |-> "dict", value |-> resp.body]

\* f'{date_str}{item["start"].replace(":", "")}00 +0800'
ErwStart(d, item) == d \o Replace(item.start, ":") \o Suffix0800

\* f'{date_str}{item["end"].replace(":", "")}00 +0800'
ErwStop(d, item) == d \o Replace(item["end"], ":") \o Suffix0800

\* mutant of ErwWithChannel: the append of line 191 left out
ErwWithChannelLeftOut(d, channel_name) == d

\* data.channels.append(Channel(id=channel_name, display_name=channel_name))
ErwWithChannel(d, channel_name) ==
    [d EXCEPT !.channels = Append(@, Channel(channel_name, channel_name))]

\* mutant of ErwWithProgramme: insert(0, ...) in place of append(...)
ErwWithProgrammeInFront(d, date, channel_name, item) ==
    [d EXCEPT !.programmes =
        <<Programme(channel_name, ErwStart(date, item),
                    ErwStop(date, item), item.title)>> \o @]

\* data.programmes.append(Programme(channel=..., start=..., stop=..., title=...))
ErwWithProgramme(d, date, channel_name, item) ==
    [d EXCEPT !.programmes =
        Append(@, Programme(channel_name, ErwStart(date, item),
                            ErwStop(date, item), item.title))]

Unasked == [kind |-> "unasked"]

\* data = Data(data_from='https://api.erw.cc/')
ErwNewData ==
    /\ prog = "erw" /\ pc = "start"
    /\ LET kw == [data_from |-> "https://api.erw.cc/"] IN
         IF DataValid(kw)
         THEN /\ data' = Data(kw)
              /\ pc' = "loop"
              /\ ci' = 1
              /\ err' = err
         ELSE /\ pc' = "raised"
              /\ err' = "ValidationError"
              /\ UNCHANGED <<data, ci>>
    /\ UNCHANGED <<prog, run, date_str, upstream, epg, ji, e_xml, before, pretty_xml>>

\* for channel_name in CHANNEL_NAMES: epg = get_epg(...); if epg is None: continue
ErwGetEpg ==
    /\ prog = "erw" /\ pc = "loop" /\ ci <= Len(CHANNEL_NAMES)
    /\ \E resp \in ErwResponses :
         /\ upstream[ci] \in {Unasked, resp}
         /\ upstream' = [upstream EXCEPT ![ci] = resp]
         /\ LET r == get_epg(resp) IN
              IF r.tag = "None"
              THEN /\ ci' = ci + 1
                   /\ UNCHANGED <<pc, epg>>
              ELSE /\ epg' = r.value
                   /\ pc' = "channel"
                   /\ ci' = ci
    /\ UNCHANGED <<prog, run, date_str, data, ji, e_xml, before, pretty_xml, err>>

\* data.channels.append(Channel(id=channel_name, display_name=channel_name))
ErwAppendChannel ==
    /\ prog = "erw" /\ pc = "channel"
    /\ data' = ErwWithChannel(data, CHANNEL_NAMES[ci])
    /\ pc' = "items"
    /\ ji' = 1
    /\ UNCHANGED <<prog, run, date_str, upstream, ci, epg, e_xml, before,
                   pretty_xml, err>>

\* for item in epg["epg_data"]: data.programmes.append(Programme(...))
\* one turn of the inner loop, or its end
ErwItem ==
    /\ prog = "erw" /\ pc = "items"
    /\ IF "epg_data" \notin DOMAIN epg
       THEN /\ pc' = "raised"
            /\ err' = "KeyError"
            /\ UNCHANGED <<data, ci, ji>>
       ELSE IF ji > Len(epg.epg_data)
       THEN /\ pc' = "loop"
            /\ ci' = ci + 1
            /\ UNCHANGED <<data, ji, err>>
       ELSE LET item == epg.epg_data[ji] IN
            IF {"start", "end", "title"} \subseteq DOMAIN item
            THEN /\ data' = ErwWithProgramme(data, date_str,
                                              CHANNEL_NAMES[ci], item)
                 /\ ji' = ji + 1
                 /\ UNCHANGED <<pc, ci, err>>
            ELSE /\ pc' = "raised"
                 /\ err' = "KeyError"
                 /\ UNCHANGED <<data, ci, ji>>
    /\ UNCHANGED <<prog, run, date_str, upstream, epg, e_xml, before, pretty_xml>>

\* return data; the main block hands it to save_epg_file
ErwReturn ==
    /\ prog = "erw" /\ pc = "loop" /\ ci > Len(CHANNEL_NAMES)
    /\ pc' = "save"
    /\ UNCHANGED <<prog, run, date_str, upstream, data, ci, epg, ji, e_xml,
                   before, pretty_xml, err>>

----------------------------------------------------------------------------
(* epg/tvmao/main.py: scrape *)

IsWs(c) == c \in {" ", "\n", "\t"}

RECURSIVE LStrip(_)
LStrip(s) == IF s # <<>> /\ IsWs(Head(s)) THEN LStrip(Tail(s)) ELSE s

RECURSIVE RStrip(_)
RStrip(s) ==
    IF s # <<>> /\ IsWs(s[Len(s)]) THEN RStrip(SubSeq(s, 1, Len(s) - 1)) ELSE s

\* str.strip()
Strip(s) == RStrip(LStrip(s))

\* re.sub(r"\s+", " ", s)
RECURSIVE CollapseWs(_)
CollapseWs(s) ==
    IF s = <<>> THEN <<>>
    ELSE IF IsWs(Head(s)) THEN <<" ">> \o CollapseWs(LStrip(Tail(s)))
    ELSE <<Head(s)>> \o CollapseWs(Tail(s))

\* length of the leading match of \d{1,2}:\d{2} (0: no match); the greedy
\* two-digit reading and the one-digit reading exclude each other
TimeTokenLen(s) ==
    IF Len(s) >= 5 /\ IsDigit(s[1]) /\ IsDigit(s[2]) /\ s[3] = ":"
       /\ IsDigit(s[4]) /\ IsDigit(s[5]) THEN 5
    ELSE IF Len(s) >= 4 /\ IsDigit(s[1]) /\ s[2] = ":"
       /\ IsDigit(s[3]) /\ IsDigit(s[4]) THEN 4
    ELSE 0

\* re.fullmatch(r"\d{1,2}:\d{2}", x)
FullMatchTime(x) == x # <<>> /\ TimeTokenLen(x) = Len(x)

\* " ".join(texts)
RECURSIVE Join(_)
Join(texts) ==
    IF texts = <<>> THEN <<>>
    ELSE IF Len(texts) = 1 THEN texts[1]
    ELSE texts[1] \o <<" ">> \o Join(Tail(texts))

\* the marker phrase of line 175, four CJK characters
Marker == <<"zheng", "zai", "bo", "chu">>

\* re.sub(pat, "", s) for a literal pat
RECURSIVE RemoveAll(_, _)
RemoveAll(s, pat) ==
    IF Len(s) < Len(pat) THEN s
    ELSE IF SubSeq(s, 1, Len(pat)) = pat
         THEN RemoveAll(SubSeq(s, Len(pat) + 1, Len(s)), pat)
    ELSE <<Head(s)>> \o RemoveAll(Tail(s), pat)

\* lines 156-180 for one <li>: its inner text and the texts of its a, span and
\* em descendants; the entries it adds to items (none or one)
ParseLi(li) ==
    LET s == Strip(CollapseWs(li.text))
        n == TimeTokenLen(s)
        time_str == SubSeq(s, 1, n)
        rest0 == Strip(SubSeq(s, n + 1, Len(s)))
        texts == SelectSeq([k \in 1..Len(li.subs) |-> Strip(li.subs[k])],
                           LAMBDA x : ~FullMatchTime(x))
        rest == IF rest0 = <<>> THEN Strip(CollapseWs(Join(texts))) ELSE rest0
        title == Strip(RemoveAll(rest, Marker))
    IN  IF n = 0 \/ title = <<>> THEN <<>>
        ELSE << [time |-> time_str, title |-> title] >>

\* the items scrape returns for a rendered page (its <li> elements in order)
RECURSIVE scrape(_)
scrape(lis) ==
    IF lis = <<>> THEN <<>> ELSE ParseLi(Head(lis)) \o scrape(Tail(lis))

\* <li> elements a page of tvmao.com may carry: a programme row, a row with a
\* one-digit hour and a line break, a navigation item, a row whose title sits in
\* sub-elements only, a row whose title is the marker phrase alone
LIS ==
    { [text |-> <<"0", "6", ":", "0", "0", " ", "A">>, subs |-> <<>>],
      [text |-> <<"7", ":", "3", "0", "\n", " ", "B">>, subs |-> << <<"B">> >>],
      [text |-> <<"H", "o", "m", "e">>, subs |-> << <<"H", "o", "m", "e">> >>],
      [text |-> <<" ", "0", "8", ":", "0", "0", "\n">>,
       subs |-> << <<"0", "8", ":", "0", "0">>, <<" ", "C">> >>],
      [text |-> <<"0", "9", ":", "0", "0", " ", "zheng", "zai", "bo", "chu">>,
       subs |-> <<>>] }

Pages == SeqsUpTo(LIS, MaxLis)

----------------------------------------------------------------------------
(* epg/tvmao/main.py: get_epg_data *)

AllChannels == << <<"CCTV1", "CCTV-CCTV1">>, <<"CCTV2", "CCTV-CCTV2">>,
                  <<"CCTV3", "CCTV-CCTV3">>, <<"ShenzhenTV", "SZTV1">>,
                  <<"ChongqingTV", "CCQTV1">> >>

\* the (channel_name, channel_id) pairs in the order the two loops visit them
CHANNELS == SubSeq(AllChannels, 1, NumCh)

TvStart(d, epg_data, index) ==
    d \o Replace(epg_data[index].time, ":") \o Suffix0800

\* mutant of TvStop: epg_data[index] in place of epg_data[index + 1]
TvStopOwnTime(d, epg_data, index) ==
    IF index = Len(epg_data)
    THEN d \o EndOfDay
    ELSE d \o Replace(epg_data[index].time, ":") \o Suffix0800

\* lines 227-230; index counts from 1 here
TvStop(d, epg_data, index) ==
    IF index = Len(epg_data)
    THEN d \o EndOfDay
    ELSE d \o Replace(epg_data[index + 1].time, ":") \o Suffix0800

\* result.channels.append(Channel(id=channel_name, display_name=channel_name))
TvWithChannel(d, channel_name) ==
    [d EXCEPT !.channels = Append(@, Channel(channel_name, channel_name))]

\* lines 223-238: one turn of the enumerate loop
TvWithProgramme(d, date, channel_name, epg_data, index) ==
    [d EXCEPT !.programmes =
        Append(@, Programme(channel_name, TvStart(date, epg_data, index),
                            TvStop(date, epg_data, index),
                            epg_data[index].title))]

\* result = Data()
TvNewData ==
    /\ prog = "tvmao" /\ pc = "start"
    /\ LET kw == <<>> IN
         IF DataValid(kw)
         THEN /\ data' = Data(kw)
              /\ pc' = "loop"
              /\ ci' = 1
              /\ err' = err
         ELSE /\ pc' = "raised"
              /\ err' = "ValidationError"
              /\ UNCHANGED <<data, ci>>
    /\ UNCHANGED <<prog, run, date_str, upstream, epg, ji, e_xml, before, pretty_xml>>

\* if epg_data := asyncio.run(scrape(url)): page.goto or a locator call may
\* raise, which nothing catches; an empty list is falsy
TvScrape ==
    /\ prog = "tvmao" /\ pc = "loop" /\ ci <= Len(CHANNELS)
    /\ \/ /\ upstream' = [upstream EXCEPT ![ci] = [kind |-> "exc"]]
          /\ pc' = "raised"
          /\ err' = "PlaywrightError"
          /\ UNCHANGED <<ci, epg>>
       \/ \E page \in Pages :
            LET epg_data == scrape(page) IN
            /\ upstream' = [upstream EXCEPT
                              ![ci] = [kind |-> "items", items |-> epg_data]]
            /\ IF epg_data = <<>>
               THEN /\ ci' = ci + 1
                    /\ UNCHANGED <<pc, epg>>
               ELSE /\ epg' = epg_data
                    /\ pc' = "channel"
                    /\ ci' = ci
            /\ err' = err
    /\ UNCHANGED <<prog, run, date_str, data, ji, e_xml, before, pretty_xml>>

\* result.channels.append(Channel(id=channel_name, display_name=channel_name))
TvAppendChannel ==
    /\ prog = "tvmao" /\ pc = "channel"
    /\ data' = TvWithChannel(data, CHANNELS[ci][1])
    /\ pc' = "items"
    /\ ji' = 1
    /\ UNCHANGED <<prog, run, date_str, upstream, ci, epg, e_xml, before,
                   pretty_xml, err>>

\* for index, epg_item in enumerate(epg_data): one turn, or the end
TvItem ==
    /\ prog = "tvmao" /\ pc = "items"
    /\ IF ji > Len(epg)
       THEN /\ pc' = "loop"
            /\ ci' = ci + 1
            /\ UNCHANGED <<data, ji>>
       ELSE /\ data' = TvWithProgramme(data, date_str, CHANNELS[ci][1],
                                        epg, ji)
            /\ ji' = ji + 1
            /\ UNCHANGED <<pc, ci>>
    /\ UNCHANGED <<prog, run, date_str, upstream, epg, e_xml, before,
                   pretty_xml, err>>

\* return result
TvReturn ==
    /\ prog = "tvmao" /\ pc = "loop" /\ ci > Len(CHANNELS)
    /\ pc' = "save"
    /\ UNCHANGED <<prog, run, date_str, upstream, data, ci, epg, ji, e_xml,
                   before, pretty_xml, err>>

----------------------------------------------------------------------------
(* epg/common.py *)

\* the document toprettyxml gives, node by node: the XML declaration, the tv
\* element with its three attributes, one node per channel and per programme
\* in list order, the closing tag (a tv element without children closes itself)
Render(d) ==
    LET root(t) == [tag |-> t, info_name |-> d.info_name,
                    info_url |-> d.info_url, data_from |-> d.data_from]
        chans == [k \in 1..Len(d.channels) |->
                    [tag |-> "channel", id |-> d.channels[k].id,
                     display_name |-> d.channels[k].display_name]]
        progs == [k \in 1..Len(d.programmes) |->
                    [tag |-> "programme", channel |-> d.programmes[k].channel,
                     start |-> d.programmes[k].start,
                     stop |-> d.programmes[k].stop,
                     title |-> d.programmes[k].title]]
    IN  IF Len(chans) + Len(progs) = 0
        THEN << [tag |-> "?xml"], root("tv/") >>
        ELSE << [tag |-> "?xml"], root("tv") >> \o chans \o progs
                \o << [tag |-> "/tv"] >>

\* mutant of DefaultMode: the file opened for appending
AppendMode == "a"

\* def save_epg_file(epg_data, mode='w')
DefaultMode == "w"

\* what open("e.xml", mode) leaves in the file
Opened(content, mode) == IF mode = "w" THEN <<>> ELSE content

\* lines 29-64: build pretty_xml, then open e.xml; open may fail (the file is
\* then untouched)
SaveOpen ==
    /\ pc = "save"
    /\ pretty_xml' = Render(data)
    /\ \/ /\ e_xml' = Opened(e_xml, DefaultMode)
          /\ pc' = "write"
          /\ err' = err
       \/ /\ pc' = "raised"
          /\ err' = "OSError"
          /\ e_xml' = e_xml
    /\ UNCHANGED <<prog, run, date_str, upstream, data, ci, epg, ji, before>>

\* f.write(pretty_xml) and the close of the with block: all of it reaches the
\* file, or the write fails after some proper prefix of it did
SaveWrite ==
    /\ pc = "write"
    /\ \/ /\ e_xml' = e_xml \o pretty_xml
          /\ pc' = "done"
          /\ err' = err
       \/ \E k \in 0..(Len(pretty_xml) - 1) :
            /\ e_xml' = e_xml \o SubSeq(pretty_xml, 1, k)
            /\ pc' = "raised"
            /\ err' = "OSError"
    /\ UNCHANGED <<prog, run, date_str, upstream, data, ci, epg, ji, before,
                   pretty_xml>>

\* the program is started again for the same date, the sources answering as
\* they did
Rerun ==
    /\ pc = "done" /\ run = "first"
    /\ run' = "second"
    /\ pc' = "start"
    /\ data' = NoData
    /\ ci' = 0 /\ ji' = 0
    /\ epg' = NoData
    /\ pretty_xml' = <<>>
    /\ before' = e_xml
    /\ UNCHANGED <<prog, date_str, upstream, e_xml, err>>

----------------------------------------------------------------------------

\* a document left by an earlier day's run
OldDoc == << [tag |-> "?xml"],
             [tag |-> "tv/", info_name |-> "by oaixnah",
              info_url |-> "https://tv.oaix.tech/e.xml",
              data_from |-> "yesterday"] >>

InitCommon ==
    /\ run = "first"
    /\ date_str \in DATES
    /\ upstream = [c \in 1..NumCh |-> Unasked]
    /\ ci = 0 /\ ji = 0
    /\ epg = NoData
    /\ e_xml \in {<<>>, OldDoc}
    /\ before = e_xml
    /\ pretty_xml = <<>>
    /\ err = ""

\* either main module is started
Init ==
    /\ prog \in {"erw", "tvmao"}
    /\ pc = "start"
    /\ data = NoData
    /\ InitCommon

Next ==
    \/ ErwNewData
    \/ TvNewData
    \/ ErwGetEpg
    \/ ErwAppendChannel
    \/ ErwItem
    \/ ErwReturn
    \/ SaveOpen
    \/ SaveWrite
    \/ Rerun

Spec == Init /\ [][Next]_vars

\* the channel loop of get_epg_data (lines 204-239) on an empty Data object.
\* As written, line 197 raises before the loop (TvNewData), so the loop is
\* checked on its own, from the state a constructed Data would give.
InitTvmao ==
    /\ prog = "tvmao"
    /\ pc = "loop"
    /\ data = Data([data_from |-> "https://www.tvmao.com/"])
    /\ run = "first"
    /\ date_str \in DATES
    /\ upstream = [c \in 1..NumCh |-> Unasked]
    /\ ci = 1 /\ ji = 0
    /\ epg = NoData
    /\ e_xml \in {<<>>, OldDoc}
    /\ before = e_xml
    /\ pretty_xml = <<>>
    /\ err = ""

NextTvmao ==
    \/ TvScrape
    \/ TvAppendChannel
    \/ TvItem
    \/ TvReturn

SpecTvmao == InitTvmao /\ [][NextTvmao]_vars

----------------------------------------------------------------------------
(* Vocabulary of the properties *)

\* the name the aggregator in hand gives its c-th configured channel
ConfigName(c) == IF prog = "erw" THEN CHANNEL_NAMES[c] ELSE CHANNELS[c][1]

ConfigIndex(name) == CHOOSE c \in 1..NumCh : ConfigName(c) = name

\* the programmes of the Schedule that name the c-th configured channel
Block(c) == SelectSeq(data.programmes, LAMBDA p : p.channel = ConfigName(c))

\* the entries the c-th channel's source gave, in upstream order
Entries(c) ==
    IF upstream[c].kind = "items" THEN upstream[c].items
    ELSE IF upstream[c].kind = "json" /\ "epg_data" \in DOMAIN upstream[c].body
    THEN upstream[c].body.epg_data
    ELSE <<>>

\* the aggregation pass is over and the Schedule is handed to save_epg_file
PassDone == pc \in {"save", "write", "done"}

\* YYYYMMDDHHMMSS +HHMM: 14 digits, a space, a sign, 4 digits
WellFormed(ts) ==
    /\ Len(ts) = 20
    /\ \A k \in 1..14 : IsDigit(ts[k])
    /\ ts[15] = " "
    /\ ts[16] \in {"+", "-"}
    /\ \A k \in 17..20 : IsDigit(ts[k])

DigitValue(c) == CHOOSE n \in 0..9 : <<"0", "1", "2", "3", "4", "5", "6", "7", "8", "9">>[n + 1] = c

\* a precedes b: two well-formed timestamps of one offset, compared digit by digit
Before(a, b) ==
    /\ WellFormed(a) /\ WellFormed(b)
    /\ SubSeq(a, 15, 20) = SubSeq(b, 15, 20)
    /\ \E k \in 1..14 :
         /\ SubSeq(a, 1, k - 1) = SubSeq(b, 1, k - 1)
         /\ DigitValue(a[k]) < DigitValue(b[k])

----------------------------------------------------------------------------
(* Properties *)

C2_NoEmptyChannel ==
    PassDone =>
      \A m \in 1..Len(data.channels) :
        \E k \in 1..Len(data.programmes) :
          data.programmes[k].channel = data.channels[m].id

\* C3: once the aggregation loop runs, no per-channel failure ends the run;
\* only an I/O failure writing the output file does.
C3_FailureIsolation ==
    (pc = "raised" /\ data # NoData) => err = "OSError"

\* C4: every Programme of the Schedule handed to save_epg_file has
\* start < stop.
C4_StartBeforeStop ==
    pc = "save" =>
      \A k \in 1..Len(data.programmes) :
        Before(data.programmes[k].start, data.programmes[k].stop)

C6_AllOrNothing ==
    pc \in {"done", "raised"} =>
      \/ e_xml = before
      \/ data # NoData /\ e_xml = Render(data)

\* C7: referential integrity in every state of the pass: a Programme in the
\* Schedule names a Channel that is already in the Schedule.
C7_ReferentialIntegrity ==
    data # NoData =>
      \A k \in 1..Len(data.programmes) :
        \E m \in 1..Len(data.channels) :
          data.channels[m].id = data.programmes[k].channel

\* C7 witness: the inner loop is under way and has appended a programme
C7_Witness ==
    /\ pc = "items"
    /\ ji >= 2
    /\ Len(data.programmes) >= 1
    /\ data.programmes[Len(data.programmes)].channel = ConfigName(ci)

\* C8: after a sequential pass the channels are a subsequence of the configured
\* list in configuration order, each id once; the programmes are the
\* per-channel blocks in that order, each block in upstream order.
C8_ConfigurationOrder ==
    PassDone =>
      /\ \A m, n \in 1..Len(data.channels) :
           m < n => ConfigIndex(data.channels[m].id) < ConfigIndex(data.channels[n].id)
      /\ \A k, l \in 1..Len(data.programmes) :
           k < l => ConfigIndex(data.programmes[k].channel)
                      <= ConfigIndex(data.programmes[l].channel)
      /\ \A c \in 1..NumCh :
           /\ Len(Block(c)) = Len(Entries(c))
           /\ \A i \in 1..Len(Block(c)) : Block(c)[i].title = Entries(c)[i].title

\* C8 witness: two channels in the Schedule, one of them with two programmes
\* of different titles
C8_Witness ==
    /\ pc = "save"
    /\ Len(data.channels) = 2
    /\ \E c \in 1..NumCh :
         /\ Len(Block(c)) = 2
         /\ Block(c)[1].title # Block(c)[2].title

\* C9: each entry point creates its empty Schedule: past the first statement
\* of the run the Data object exists.
C9_ScheduleCreated ==
    pc # "start" => data # NoData

\* C10: idempotence: a second complete run for the same date against the same
\* upstream answers leaves e.xml as the first complete run left it.
C10_Idempotent ==
    (run = "second" /\ pc = "done") => e_xml = before

\* C10 witness: the second run completed and wrote a document with programmes
C10_Witness ==
    /\ run = "second" /\ pc = "done"
    /\ Len(data.programmes) >= 2
    /\ e_xml = Render(data)

====
